---- MODULE Spec2Model ----
(***************************************************************************)
(* Model of the ledger / consensus engine of src/src/final.ts:             *)
(* Transaction, Block (mining, proof of work), Blockchain (transaction     *)
(* pool, verify, consensus, submitTransaction, createBlock,                *)
(* computeBalance) and the two files the node persists to.                 *)
(*                                                                         *)
(* Conventions.                                                            *)
(*   - A JavaScript value that may be undefined or null is a sequence of   *)
(*     length at most one: <<>> is undefined/null, <<v>> is the value v.   *)
(*   - JSON.stringify of an object is the sequence of its <<key, value>>   *)
(*     pairs in declaration order, the pairs whose value is undefined      *)
(*     left out, as JSON.stringify does.                                   *)
(*   - A SHA-256 digest is a record [str, num]: str is the string that was *)
(*     hashed (two digests are equal exactly when the strings are, i.e.    *)
(*     the hash is collision free) and num is the digest read as a number, *)
(*     a deterministic mix of the hashed fields reduced to HashBits bits.  *)
(***************************************************************************)
EXTENDS Integers, Sequences, FiniteSets, TLC

(***************************************************************************)
(* Bounds of the model.                                                    *)
(***************************************************************************)
HashBits == 8        \* width of the numeric value of a digest
MaxSteps == 4        \* number of operations called on the node in a behaviour
MaxCandidates == 2   \* number of candidate chains handed to consensus

(***************************************************************************)
(* Program constants.                                                      *)
(***************************************************************************)
DIFFICULTY == 4
TARGET == 2 ^ (HashBits - DIFFICULTY)
MINING_REWARD == 25
BLOCKCHAIN_MINING_REWARD == 50
SATOSHI_NAKAMOTO == "123456"

Undefined == <<>>
Null == <<>>
Just(v) == <<v>>

Addresses == {SATOSHI_NAKAMOTO, "A", "B"}

\* A number for each address, used only by the digest mix.
AddrNum(a) == CASE a = SATOSHI_NAKAMOTO -> 1 [] a = "A" -> 2 [] a = "B" -> 3 [] OTHER -> 4

Modulus == 2 ^ HashBits

RECURSIVE SumSeq(_)
SumSeq(s) == IF s = <<>> THEN 0 ELSE Head(s) + SumSeq(Tail(s))

MapSeq(s, F(_)) == [i \in 1..Len(s) |-> F(s[i])]

\* numeric contribution of an optional digest
HashNum(h) == IF h = Undefined THEN 0 ELSE h[1].num + 1

\* The digest mix: the numbers of a sequence are absorbed one after the
\* other, each through the permutation y -> y * (2y + 1) of the HashBits-bit
\* numbers.
Permute(y) == ((y % Modulus) * (2 * (y % Modulus) + 1)) % Modulus

RECURSIVE Absorb(_, _)
Absorb(acc, xs) ==
    IF xs = <<>> THEN acc ELSE Absorb(Permute(3 * acc + Head(xs) + 29), Tail(xs))

(***************************************************************************)
(* Wallet: sign / verifySignature.  A private key is identified by the     *)
(* address whose public key it belongs to; a signature records the key     *)
(* that made it and the message it was made over.                          *)
(***************************************************************************)
Sign(wallet, message) == [signer |-> wallet.privateKey, message |-> message]

verifySignature(walletAddress, message, signature) ==
    signature.signer = walletAddress /\ signature.message = message

(***************************************************************************)
(* Transaction                                                             *)
(***************************************************************************)
TransactionOutput(recipientAddress, amount) ==
    [recipientAddress |-> recipientAddress, amount |-> amount]

TransactionInput(transaction, outputIdx) ==
    [transaction |-> transaction, outputIdx |-> outputIdx]

\* TransactionInput.parentOutput (outputIdx counts from 0)
parentOutput(txin) == txin.transaction.outputs[txin.outputIdx + 1]

TxDigest(json) ==
    Absorb(Absorb(Absorb(1, MapSeq(json.inputs, LAMBDA i : i.transaction.num)),
                  MapSeq(json.inputs, LAMBDA i : i.outputIdx)),
           MapSeq(json.outputs, LAMBDA o : 5 * o.amount + AddrNum(o.recipientAddress)))

\* JSON.stringify of a transaction's json
TxPairs(json) == <<<<"inputs", json.inputs>>, <<"outputs", json.outputs>>>>

\* sha256(JSON.stringify(json)) of a transaction's json
TxSha256(json) == [str |-> TxPairs(json), num |-> TxDigest(json)]

RECURSIVE TransactionToJson(_)
TransactionHash(tx) == TxSha256(TransactionToJson(tx))

TransactionToJson(tx) ==
    [inputs  |-> [i \in 1..Len(tx.inputs) |->
                    [transaction |-> TransactionHash(tx.inputs[i].transaction),
                     outputIdx |-> tx.inputs[i].outputIdx]],
     outputs |-> [i \in 1..Len(tx.outputs) |->
                    [recipientAddress |-> tx.outputs[i].recipientAddress,
                     amount |-> tx.outputs[i].amount]]]

\* JSON.stringify(this.toJson()) of a transaction
TxStringify(tx) == TxPairs(TransactionToJson(tx))

\* new Transaction(wallet, inputs, outputs)
Transaction(wallet, inputs, outputs) ==
    [wallet |-> Just(wallet), inputs |-> inputs, outputs |-> outputs,
     signature |-> Sign(wallet, TxStringify([inputs |-> inputs, outputs |-> outputs]))]

\* new GenesisTransaction(recipientAddress, amount)
GenesisTransaction(recipientAddress, amount) ==
    [wallet |-> Null, inputs |-> <<>>,
     outputs |-> <<TransactionOutput(recipientAddress, amount)>>,
     signature |-> [signer |-> "genesis", message |-> <<>>]]

totalIn(tx) == SumSeq(MapSeq(tx.inputs, LAMBDA txin : parentOutput(txin).amount))
totalOut(tx) == SumSeq(MapSeq(tx.outputs, LAMBDA txout : txout.amount))

\* Transaction.verify with the funds check off by one
TransactionVerify_FundsOffByOne(transaction) ==
    /\ \A i \in 1..Len(transaction.inputs) :
          parentOutput(transaction.inputs[i]).recipientAddress
              = parentOutput(transaction.inputs[1]).recipientAddress
    /\ verifySignature(transaction.wallet[1].address, TxStringify(transaction),
                       transaction.signature)
    /\ totalOut(transaction) <= totalIn(transaction) + 1

\* Transaction.verify
\* (sameWallet, correctSignature and the comparison of the totals)
TransactionVerify(transaction) ==
    /\ \A i \in 1..Len(transaction.inputs) :
          parentOutput(transaction.inputs[i]).recipientAddress
              = parentOutput(transaction.inputs[1]).recipientAddress
    /\ verifySignature(transaction.wallet[1].address, TxStringify(transaction),
                       transaction.signature)
    /\ totalOut(transaction) <= totalIn(transaction)

(***************************************************************************)
(* Block                                                                   *)
(*                                                                         *)
(* cls is the class of the object ("Block" or "GenesisBlock"), which       *)
(* selects the toJson that sha256 uses.  ancestor is null or a reference   *)
(* to the ancestor block; the code reads only ancestor.hash and            *)
(* ancestor.blockNumber through it, so the reference keeps these two.      *)
(***************************************************************************)
AncestorRef(b) == [hash |-> b.hash, blockNumber |-> b.blockNumber]

\* Block.toJson / GenesisBlock.toJson (the object before JSON.stringify)
toJson(b) ==
    IF b.cls = "GenesisBlock"
    THEN [transactions |-> <<>>,
          ancestor |-> Just(""),
          genesisBlock |-> TRUE,
          nonce |-> b.nonce,
          hash |-> b.hash,
          blockNumber |-> b.blockNumber]
    ELSE [nonce |-> b.nonce,
          hash |-> b.hash,
          blockNumber |-> b.blockNumber,
          ancestor |-> b.ancestor[1].hash,
          transactions |-> MapSeq(b.transactions, TransactionToJson),
          genesisBlock |-> FALSE]

\* this.ancestor.hash on a Block whose ancestor is null raises a TypeError
toJsonThrows(b) == b.cls # "GenesisBlock" /\ b.ancestor = Null

\* JSON.stringify: the keys in declaration order, undefined values omitted
JSONstringify(json) ==
    SelectSeq(IF json.genesisBlock
              THEN << <<"transactions", Just(json.transactions)>>,
                      <<"ancestor", json.ancestor>>,
                      <<"genesisBlock", Just(json.genesisBlock)>>,
                      <<"nonce", json.nonce>>,
                      <<"hash", json.hash>>,
                      <<"blockNumber", Just(json.blockNumber)>> >>
              ELSE << <<"nonce", json.nonce>>,
                      <<"hash", json.hash>>,
                      <<"blockNumber", Just(json.blockNumber)>>,
                      <<"ancestor", json.ancestor>>,
                      <<"transactions", Just(json.transactions)>>,
                      <<"genesisBlock", Just(json.genesisBlock)>> >>,
              LAMBDA p : p[2] # Undefined)

\* the digest of a block's json read as a number
Digest(json) ==
    (Absorb(Absorb(2, << IF json.genesisBlock THEN 1 ELSE 0,
                         json.blockNumber,
                         HashNum(json.hash),
                         IF json.genesisBlock THEN 0 ELSE HashNum(json.ancestor) >>),
            MapSeq(json.transactions, TxDigest))
       + 17 * (IF json.nonce = Undefined THEN 0 ELSE json.nonce[1] + 1)) % Modulus

\* sha256(JSON.stringify(json)) of a block's json
HashJson(json) == [str |-> JSONstringify(json), num |-> Digest(json)]

\* Block.sha256: sha256(JSON.stringify(this.toJson()))
sha256(b) == HashJson(toJson(b))

\* Block.isPoWValid.  pow is a digest; its numeric value is compared with
\* the decimal rendering of blockDifficulty, which is exact for numbers of
\* HashBits bits.
isPoWValid(b, pow) == pow.num <= b.blockDifficulty

\* Block.mine: the loop from the nonce n on; mineTry is one turn of it, with
\* pow the digest computed for the nonce n
RECURSIVE mineFrom(_, _)
mineTry(b, n, pow) ==
    IF isPoWValid(b, pow)
    THEN [b EXCEPT !.nonce = Just(n), !.hash = Just(pow)]
    ELSE mineFrom(b, n + 1)

mineFrom(b, n) == mineTry(b, n, sha256([b EXCEPT !.nonce = Just(n)]))

mine(b) == mineFrom(b, 0)

\* the fields the Block constructor sets before mining
BlockFields(cls, transactions, ancestor, minerAddress, validTransaction) ==
    [cls |-> cls,
     transactions |-> transactions,
     ancestor |-> IF ancestor = Null THEN Null ELSE Just(AncestorRef(ancestor[1])),
     minerAddress |-> minerAddress,
     nonce |-> Undefined,
     hash |-> Undefined,
     blockNumber |-> IF ancestor # Null THEN ancestor[1].blockNumber + 1 ELSE 0,
     validTransaction |-> validTransaction,
     blockDifficulty |-> TARGET]

\* validTransaction: every transaction handed to the constructor verifies
allVerify(transactions) ==
    \A i \in 1..Len(transactions) : TransactionVerify(transactions[i])

\* the end of the constructor: if (this.validTransaction) this.mine()
mineIfValid(b) == IF b.validTransaction THEN mine(b) ELSE b

\* new Block(...) that mines the block whether or not its transactions verify
NewBlock_AlwaysMines(cls, transactions, ancestor, minerAddress) ==
    mine(BlockFields(cls,
                     <<GenesisTransaction(minerAddress, MINING_REWARD)>> \o transactions,
                     ancestor, minerAddress, allVerify(transactions)))

\* new Block(...) that puts the coinbase after the transactions
NewBlock_CoinbaseLast(cls, transactions, ancestor, minerAddress) ==
    mineIfValid(BlockFields(cls,
                            transactions \o <<GenesisTransaction(minerAddress, MINING_REWARD)>>,
                            ancestor, minerAddress, allVerify(transactions)))

\* new Block(transactions, ancestor, minerAddress), cls the class constructed
NewBlock(cls, transactions, ancestor, minerAddress) ==
    mineIfValid(BlockFields(cls,
                            <<GenesisTransaction(minerAddress, MINING_REWARD)>> \o transactions,
                            ancestor, minerAddress, allVerify(transactions)))

\* new GenesisBlock(minerAddress)
GenesisBlock(minerAddress) == NewBlock("GenesisBlock", <<>>, Null, minerAddress)

\* Blockchain.GENESIS_BLOCK
GENESIS_BLOCK == GenesisBlock(SATOSHI_NAKAMOTO)

\* deepEqual(a, b): the own properties of the two objects are deep-equal
\* (the class of the objects is not a property)
deepEqual(a, b) == [a EXCEPT !.cls = "Object"] = [b EXCEPT !.cls = "Object"]

(***************************************************************************)
(* Blockchain.verify (static)                                              *)
(***************************************************************************)
\* the loop of verify without the comparison of the ancestor hash
RECURSIVE verifyFrom_NoLink(_, _)
verifyFrom_NoLink(chain, i) ==
    IF ~(i < Len(chain)) THEN TRUE
    ELSE LET current == chain[i + 1]
             previous == chain[i]
         IN IF current.blockNumber # i THEN FALSE
            ELSE IF current.ancestor = Null THEN FALSE
            ELSE IF toJsonThrows(previous) THEN FALSE
            ELSE IF ~isPoWValid(current, sha256(current)) THEN FALSE
            ELSE verifyFrom_NoLink(chain, i + 1)

\* the loop body from index i on; an exception raised inside the try block
\* is caught and makes the result false
RECURSIVE verifyFrom(_, _)
verifyFrom(chain, i) ==
    IF ~(i < Len(chain)) THEN TRUE
    ELSE LET current == chain[i + 1]
             previous == chain[i]
         IN IF current.blockNumber # i THEN FALSE
            ELSE IF current.ancestor = Null THEN FALSE
            ELSE IF toJsonThrows(previous) THEN FALSE
            ELSE IF current.ancestor[1].hash # Just(sha256(previous)) THEN FALSE
            ELSE IF ~isPoWValid(current, sha256(current)) THEN FALSE
            ELSE verifyFrom(chain, i + 1)

\* Blockchain.verify without the comparison of the first block with genesis
Verify_NoGenesisCheck(chain) ==
    IF Len(chain) = 0 THEN FALSE
    ELSE verifyFrom(chain, 1)

Verify(chain) ==
    IF Len(chain) = 0 THEN FALSE
    ELSE IF ~deepEqual(chain[1], GENESIS_BLOCK) THEN FALSE
    ELSE verifyFrom(chain, 1)

(***************************************************************************)
(* Chains handed to consensus and to verify.  A peer is free to send any   *)
(* sequence of blocks.  PeerBlock builds a block that verify accepts on    *)
(* top of prev: its ancestor.hash is the digest verify recomputes for      *)
(* prev, and its nonce is the first one for which the digest verify        *)
(* recomputes for the block itself meets the target.                       *)
(***************************************************************************)
\* the block c with the digest of its hashless json as hash
withHash(c) == [c EXCEPT !.hash = Just(sha256(c))]

RECURSIVE peerMineFrom(_, _)
peerTry(b, n, d) == IF isPoWValid(d, sha256(d)) THEN d ELSE peerMineFrom(b, n + 1)

peerMineFrom(b, n) ==
    peerTry(b, n, withHash([b EXCEPT !.nonce = Just(n), !.hash = Undefined]))

\* a block of a peer whose only transaction pays amount to the miner
PeerBlockPaying(prev, minerAddress, amount) ==
    peerMineFrom([cls |-> "Block",
                  transactions |-> <<GenesisTransaction(minerAddress, amount)>>,
                  ancestor |-> Just([hash |-> Just(sha256(prev)), blockNumber |-> prev.blockNumber]),
                  minerAddress |-> minerAddress,
                  nonce |-> Undefined,
                  hash |-> Undefined,
                  blockNumber |-> prev.blockNumber + 1,
                  validTransaction |-> TRUE,
                  blockDifficulty |-> TARGET], 0)

PeerBlock(prev, minerAddress) == PeerBlockPaying(prev, minerAddress, MINING_REWARD)

\* what the miner of a peer's block pays itself when it does not keep to
\* MINING_REWARD
PEER_REWARD == 1000

\* One more block on a chain: built by a peer so that verify accepts it
\* ("peer"), the same with a coinbase of PEER_REWARD ("rich"), or mined by a
\* node running this code, as createBlock does with an empty pool ("node").
Extend(chain, how, minerAddress) ==
    Append(chain, IF how = "peer"
                  THEN PeerBlock(chain[Len(chain)], minerAddress)
                  ELSE IF how = "rich"
                  THEN PeerBlockPaying(chain[Len(chain)], minerAddress, PEER_REWARD)
                  ELSE NewBlock("Block", <<>>, Just(chain[Len(chain)]), minerAddress))

\* the chain that starts with the genesis block of genesisMiner and grows by
\* the steps <<how, minerAddress>> of recipe
RECURSIVE Build(_, _)
Build(genesisMiner, recipe) ==
    IF recipe = <<>>
    THEN <<GenesisBlock(genesisMiner)>>
    ELSE Extend(Build(genesisMiner, SubSeq(recipe, 1, Len(recipe) - 1)),
                recipe[Len(recipe)][1], recipe[Len(recipe)][2])

\* the ways one block of a chain is changed (1 leaves it as it is, 8 removes
\* the block from the chain)
Kinds == 1..10

AlteredHash(h) == IF h = Undefined THEN h ELSE Just([h[1] EXCEPT !.num = (@ + 1) % Modulus])

TestBlock(blk, m) ==
    CASE m = 2 -> IF blk.ancestor = Null THEN blk
                  ELSE [blk EXCEPT !.ancestor = Just([@[1] EXCEPT !.hash = AlteredHash(@)])]
      [] m = 3 -> [blk EXCEPT !.ancestor = Null]
      [] m = 4 -> [blk EXCEPT !.blockNumber = @ + 1]
      [] m = 5 -> [blk EXCEPT !.nonce = Just(@[1] + 1)]
      [] m = 6 -> [blk EXCEPT !.hash = Undefined]
      [] m = 7 -> [blk EXCEPT !.cls = IF @ = "Block" THEN "GenesisBlock" ELSE "Block"]
      [] m = 9 -> [blk EXCEPT !.blockDifficulty = Modulus]
      [] m = 10 -> [blk EXCEPT !.transactions = <<GenesisTransaction(blk.minerAddress, 1000)>>]
      [] OTHER -> blk

\* chain with its block k changed in the way m
Altered(chain, k, m) ==
    IF m = 8
    THEN SubSeq(chain, 1, k - 1) \o SubSeq(chain, k + 1, Len(chain))
    ELSE [chain EXCEPT ![k] = TestBlock(@, m)]

Chain(genesisMiner, recipe, k, m) ==
    [genesisMiner |-> genesisMiner, recipe |-> recipe, k |-> k, m |-> m]

\* The candidate chains consensus is called with: 1 and 2 are chains of
\* length 2 that verify accepts, 3 is 1 grown by a block whose miner pays
\* itself PEER_REWARD, 4 is a chain of length 4 on the genesis block of
\* another miner.
CandidateSpecs ==
    << Chain(SATOSHI_NAKAMOTO, << <<"peer", "A">> >>, 1, 1),
       Chain(SATOSHI_NAKAMOTO, << <<"peer", "B">> >>, 1, 1),
       Chain(SATOSHI_NAKAMOTO, << <<"peer", "A">>, <<"rich", "B">> >>, 1, 1),
       Chain("A", << <<"peer", "A">>, <<"peer", "B">>, <<"peer", "A">> >>, 1, 1) >>

CandidateIds == 1..Len(CandidateSpecs)

Candidate(spec) == Altered(Build(spec.genesisMiner, spec.recipe), spec.k, spec.m)

Candidates == [c \in CandidateIds |-> Candidate(CandidateSpecs[c])]

RECURSIVE SeqsUpTo(_, _)
SeqsUpTo(S, n) ==
    IF n = 0 THEN {<<>>}
    ELSE SeqsUpTo(S, n - 1) \cup {Append(q, x) : q \in [1..(n - 1) -> S], x \in S}

\* the lists of candidates consensus is called with
CandidateLists == SeqsUpTo(CandidateIds, MaxCandidates)

(***************************************************************************)
(* Inputs of the static functions Blockchain.verify and                    *)
(* Transaction.verify when they are called on their own.                   *)
(***************************************************************************)
\* Blockchain.verify: the chain TestBase(b) with its block k changed in the
\* way m
TestRecipes ==
    << << <<"peer", "A">>, <<"peer", "B">>, <<"peer", "A">> >>,
       << <<"peer", "B">>, <<"peer", "B">> >>,
       << <<"node", "A">>, <<"node", "B">> >>,
       <<>> >>

TestBase(b) == Build(SATOSHI_NAKAMOTO, TestRecipes[b])

TestChain(b, k, m) == Altered(TestBase(b), k, m)

VerifyInputs ==
    UNION { {<<"verify", b, k, m>> : k \in 1..(Len(TestRecipes[b]) + 1), m \in Kinds} :
            b \in 1..Len(TestRecipes) }

\* Transaction.verify: a transaction signed by the wallet w, spending the
\* outputs TestSpends[i], whose two outputs sum to the sum of the spent
\* outputs plus d
TestWallets == << [address |-> "A", privateKey |-> "A"], [address |-> "A", privateKey |-> "B"] >>

CoinbaseA == GenesisTransaction("A", MINING_REWARD)
CoinbaseB == GenesisTransaction("B", MINING_REWARD)
PaidB == Transaction(TestWallets[1], <<TransactionInput(CoinbaseA, 0)>>,
                     <<TransactionOutput("B", 10), TransactionOutput("A", 15)>>)

TestSpends ==
    << <<>>,
       <<TransactionInput(CoinbaseA, 0)>>,
       <<TransactionInput(CoinbaseA, 0), TransactionInput(PaidB, 1)>>,
       <<TransactionInput(CoinbaseA, 0), TransactionInput(CoinbaseB, 0)>>,
       <<TransactionInput(PaidB, 0)>> >>

\* the transaction of wallet that spends inputs and pays 1 to B and the
\* rest of the spent amount plus d to A
Spending(wallet, inputs, d) ==
    Transaction(wallet, inputs,
                <<TransactionOutput("B", 1),
                  TransactionOutput("A", totalIn([inputs |-> inputs]) + d - 1)>>)

TestTransaction(w, i, d) == Spending(TestWallets[w], TestSpends[i], d)

TransactionInputs ==
    {<<"Transaction.verify", w, i, d>> :
        w \in 1..Len(TestWallets), i \in 1..Len(TestSpends), d \in {-1, 0, 1}}

(***************************************************************************)
(* Block.isPoWValid at the width of a SHA-256 digest.  Numbers of that     *)
(* width are sequences of decimal digits, most significant first, without  *)
(* leading zeros (0 is <<0>>), as an arbitrary precision BigNumber holds   *)
(* them.                                                                   *)
(***************************************************************************)
DigestBits == 256      \* the width of a SHA-256 digest
DoubleBits == 53       \* the width of the significand of a Number

\* the digit of a that stands i places left of its last digit
DigitAt(a, i) == IF i < Len(a) THEN a[Len(a) - i] ELSE 0

\* the carry into the place i of a + b: some place below i produces a carry
\* and every place between the two passes it on
CarryInto(a, b, i) ==
    \E j \in 0..(i - 1) :
        /\ DigitAt(a, j) + DigitAt(b, j) >= 10
        /\ \A k \in (j + 1)..(i - 1) : DigitAt(a, k) + DigitAt(b, k) = 9

\* the n digits of a + b, the first one of which may be 0
SumDigits(a, b, n) ==
    [p \in 1..n |-> (DigitAt(a, n - p) + DigitAt(b, n - p)
                      + IF CarryInto(a, b, n - p) THEN 1 ELSE 0) % 10]

WithoutLeadingZero(a) == IF Len(a) > 1 /\ a[1] = 0 THEN Tail(a) ELSE a

\* a + b
Add(a, b) ==
    WithoutLeadingZero(SumDigits(a, b, (IF Len(a) > Len(b) THEN Len(a) ELSE Len(b)) + 1))

\* 2 x a: the place below carries exactly when its digit is at least 5
Twice(a) ==
    WithoutLeadingZero([p \in 1..(Len(a) + 1) |->
        (2 * DigitAt(a, Len(a) + 1 - p)
         + IF p <= Len(a) /\ DigitAt(a, Len(a) - p) >= 5 THEN 1 ELSE 0) % 10])

\* a <= b
Leq(a, b) ==
    \/ Len(a) < Len(b)
    \/ /\ Len(a) = Len(b)
       /\ \A i \in 1..Len(a) : a[i] > b[i] => \E j \in 1..(i - 1) : a[j] < b[j]

\* new BigNumber("0x" + hex): the value of a string of hexadecimal digits
\* 16 x acc + digit
Shifted(acc, digit) ==
    IF digit = 0 THEN Twice(Twice(Twice(Twice(acc))))
    ELSE Add(Twice(Twice(Twice(Twice(acc)))), IF digit < 10 THEN <<digit>> ELSE <<1, digit - 10>>)

RECURSIVE BigNumberOfHexFrom(_, _, _)
BigNumberOfHexFrom(hex, i, acc) ==
    IF i > Len(hex) \/ Len(acc) = 0 THEN acc
    ELSE BigNumberOfHexFrom(hex, i + 1, Shifted(acc, hex[i]))

BigNumberOfHex(hex) == BigNumberOfHexFrom(hex, 1, <<0>>)

\* 2^n, read from its hexadecimal digits
Pow2(n) == BigNumberOfHex(<<2 ^ (n % 4)>> \o [i \in 1..(n \div 4) |-> 0])

\* Block.TARGET, 2 ** (256 - DIFFICULTY): a power of two, which a Number
\* holds exactly
BlockTarget == Pow2(DigestBits - DIFFICULTY)

\* The Numbers next to the power of two v = 2^e are 2^e - 2^(e - DoubleBits)
\* and 2^e + 2^(e - DoubleBits + 1); a decimal s reads back as v when it is
\* no further from v than half of that (ties go to v, whose significand is
\* even): v <= s + halfBelow and s <= upper, for halfBelow =
\* 2^(e - DoubleBits - 1) and upper = 2^e + 2^(e - DoubleBits).
ReadsBackAs(s, v, halfBelow, upper) ==
    /\ Leq(v, Add(s, halfBelow))
    /\ Leq(s, upper)

\* the first k digits of a followed by zeros
Truncated(a, k) == [i \in 1..Len(a) |-> IF i <= k THEN a[i] ELSE 0]

\* 10^n
Pow10(n) == <<1>> \o [i \in 1..n |-> 0]

\* Number.prototype.toString of the Number 2^e, for 2^e >= 10^21: the
\* digits s and the exponent of the scientific notation.  s has the least
\* number k of digits for which s x 10^(n - k) reads back as the Number; of
\* the two decimals of k digits around it, the nearer one is taken first.
RECURSIVE ShortestFrom(_, _, _, _)

\* the scientific notation of the decimal s, which has k digits before its zeros
Scientific(s, k) == [digits |-> SubSeq(s, 1, k), exponent |-> Len(s) - 1]

\* the first of the two decimals of k digits that reads back as v, if any
Pick(v, halfBelow, upper, k, nearer, further) ==
    IF ReadsBackAs(nearer, v, halfBelow, upper) THEN Scientific(nearer, k)
    ELSE IF ReadsBackAs(further, v, halfBelow, upper) THEN Scientific(further, k)
    ELSE ShortestFrom(v, halfBelow, upper, k + 1)

ShortestFrom(v, halfBelow, upper, k) ==
    IF k >= Len(v) THEN Scientific(v, Len(v))
    ELSE IF v[k + 1] >= 5
    THEN Pick(v, halfBelow, upper, k, Add(Truncated(v, k), Pow10(Len(v) - k)), Truncated(v, k))
    ELSE Pick(v, halfBelow, upper, k, Truncated(v, k), Add(Truncated(v, k), Pow10(Len(v) - k)))

\* this.blockDifficulty.toString() for the blockDifficulty 2^e
NumberToString(e) ==
    ShortestFrom(Pow2(e), Pow2(e - DoubleBits - 1), Add(Pow2(e), Pow2(e - DoubleBits)), 1)

\* new BigNumber(string) of a string in scientific notation
BigNumberOfString(str) ==
    str.digits \o [i \in 1..(str.exponent + 1 - Len(str.digits)) |-> 0]

\* the BigNumber the hash is compared with (line 158)
DifficultyBigNumber == BigNumberOfString(NumberToString(DigestBits - DIFFICULTY))

\* Block.isPoWValid of a block whose blockDifficulty is Block.TARGET, on a
\* hash of 64 hexadecimal digits
isPoWValidHex(pow) == Leq(BigNumberOfHex(pow), DifficultyBigNumber)

\* the hashes isPoWValid is called with: a first digit, 62 times the same
\* digit, and a last digit
HexHash(first, fill, lastDigit) ==
    <<first>> \o [i \in 1..(DigestBits \div 4 - 2) |-> fill] \o <<lastDigit>>

HexFirst == <<0, 1>>
HexFill == <<0, 15>>
HexLast == <<0, 1, 15>>

PoWInputs ==
    {<<"isPoWValid", f, m, l>> : f \in 1..Len(HexFirst), m \in 1..Len(HexFill), l \in 1..Len(HexLast)}

\* The Blockchain constructor: what the two files of the storage hold when
\* it runs.  A file is absent, or holds a text JSON.parse rejects, or holds
\* the text "[]".
FileKinds == <<"absent", "corrupt", "emptyList">>

BootInputs ==
    {<<"boot", c, p, 0>> : c \in 1..Len(FileKinds), p \in 1..Len(FileKinds)}

(***************************************************************************)
(* State of a node                                                         *)
(***************************************************************************)
VARIABLES
    blocks,            \* Blockchain.blocks
    transactionPool,   \* Blockchain._transactionPool
    diskBlocks,        \* the file storagePath: absent (<<>>) or the saved chain
    diskPool,          \* the file storagePath + 'txpool': absent or the saved pool
    last,              \* the last operation called and what it returned or threw
    offered,           \* what the candidates had to offer, if last is a consensus
    newBlock,          \* the block that was built, if last is a createBlock
    steps,             \* the number of operations called so far
    arg,               \* the input of a call of a static function, or NoCall
    mining             \* the createBlock call that is running, if its steps are followed

vars ==
    <<blocks, transactionPool, diskBlocks, diskPool, last, offered, newBlock, steps, arg, mining>>

node == <<blocks, transactionPool, diskBlocks, diskPool>>

NoCall == <<"none", 0, 0, 0>>

\* an event loop that would start a callback while createBlock is running
Idle_Preemptive == TRUE

\* The event loop starts a callback only when no other one is running:
\* createBlock and the constructor and mine it calls are synchronous code, so
\* nothing else runs on the node from its first line to its return.
Idle == mining = Undefined

\* a request can be served: the node was constructed, no write has failed,
\* and the bound on the number of operations is not reached
Serving ==
    /\ arg = NoCall
    /\ last.ret # "EIO"
    /\ steps < MaxSteps

\* one more operation is called on the node
Step ==
    /\ Idle
    /\ mining' = mining
    /\ arg = NoCall
    /\ last.ret # "EIO"    \* a behaviour is followed up to the first failed write
    /\ steps < MaxSteps
    /\ steps' = steps + 1
    /\ arg' = arg

\* what an operation records about its call
Called(op, ret) == [op |-> op, ret |-> ret, len0 |-> Len(blocks)]

WalletA == [address |-> "A", privateKey |-> "A"]
ForgedA == [address |-> "A", privateKey |-> "B"]   \* a key that does not belong to the address
WalletS == [address |-> SATOSHI_NAKAMOTO, privateKey |-> SATOSHI_NAKAMOTO]

\* the calls of submitTransaction that are explored
Requests ==
    { [senderWallet |-> WalletA, recipientAddress |-> "B", value |-> 10],
      [senderWallet |-> WalletA, recipientAddress |-> "B", value |-> 30],
      [senderWallet |-> ForgedA, recipientAddress |-> "B", value |-> 10],
      [senderWallet |-> WalletS, recipientAddress |-> "B", value |-> 10] }

Miners == {"A", "B"}

\* Blockchain.verify and the length of each candidate chain
ChainInfo(chain) == [length |-> Len(chain), valid |-> Verify(chain)]

CandInfo == [c \in CandidateIds |-> ChainInfo(Candidates[c])]

\* The candidates of a call of consensus, described without the loop of the
\* code: whether one of them passes verify, the greatest length of those
\* that do, and the first listed one of that length.  infos[k] is the
\* ChainInfo of the candidate cands[k].
Summary(cands, infos) ==
    LET valid == {k \in 1..Len(cands) : infos[k].valid}
        longest == {k \in valid : \A j \in valid : infos[j].length <= infos[k].length}
        first == CHOOSE k \in longest : \A j \in longest : k <= j
    IN [count |-> Len(cands),
        anyValid |-> valid # {},
        bestLength |-> IF valid = {} THEN 0 ELSE infos[first].length,
        firstBest |-> IF valid = {} THEN 0 ELSE cands[first]]

Offer(cands) == Summary(cands, [k \in 1..Len(cands) |-> CandInfo[cands[k]]])

\* no candidates were handed over
NoOffer == [count |-> 0, anyValid |-> FALSE, bestLength |-> 0, firstBest |-> 0]

\* the Blockchain constructor run on empty storage: initTransactionPool, load
Init ==
    /\ blocks = <<GENESIS_BLOCK>>
    /\ transactionPool = <<>>
    /\ diskBlocks = Undefined
    /\ diskPool = Undefined
    /\ last = [op |-> "constructor", ret |-> "none", len0 |-> 0]
    /\ offered = NoOffer
    /\ newBlock = Undefined
    /\ steps = 0
    /\ arg \in {NoCall} \cup VerifyInputs \cup TransactionInputs \cup BootInputs
               \cup PoWInputs
    /\ mining = Undefined

\* Blockchain.getLastBlock
getLastBlock(chain) == chain[Len(chain)]

\* all transactions of a chain in order (computeBalance, line 431)
RECURSIVE allTransactions(_)
allTransactions(chain) ==
    IF chain = <<>> THEN <<>>
    ELSE allTransactions(SubSeq(chain, 1, Len(chain) - 1)) \o chain[Len(chain)].transactions

\* Blockchain.computeBalance
computeBalance(chain, walletAddress) ==
    LET transactions == allTransactions(chain)
        delta(tx) ==
            SumSeq(MapSeq(tx.outputs, LAMBDA txout :
                      IF txout.recipientAddress = walletAddress THEN txout.amount ELSE 0))
            - SumSeq(MapSeq(tx.inputs, LAMBDA txin :
                      IF parentOutput(txin).recipientAddress = walletAddress
                      THEN parentOutput(txin).amount ELSE 0))
    IN SumSeq(MapSeq(transactions, delta))

Abs(x) == IF x < 0 THEN 0 - x ELSE x

\* outputs.findIndex(txout => txout.recipientAddress == address), -1 if none
RECURSIVE findIndexFrom(_, _, _)
findIndexFrom(outputs, address, i) ==
    IF i >= Len(outputs) THEN -1
    ELSE IF outputs[i + 1].recipientAddress = address THEN i
    ELSE findIndexFrom(outputs, address, i + 1)

findIndex(outputs, address) == findIndexFrom(outputs, address, 0)

\* submitTransaction collecting only the outputs no transaction of the chain
\* has spent
SubmittedTransaction_SkipsSpent(chain, senderWallet, recipientAddress, value) ==
    LET transactions == allTransactions(chain)
        spendable == SelectSeq(transactions,
                               LAMBDA tx : /\ findIndex(tx.outputs, senderWallet.address) > -1
                                           /\ \A i \in 1..Len(transactions) :
                                                \A k \in 1..Len(transactions[i].inputs) :
                                                   transactions[i].inputs[k] #
                                                       TransactionInput(tx,
                                                           findIndex(tx.outputs, senderWallet.address)))
        txinputs == MapSeq(spendable,
                           LAMBDA tx : TransactionInput(tx, findIndex(tx.outputs, senderWallet.address)))
        senderBalance == computeBalance(chain, senderWallet.address)
        txOutputs == << TransactionOutput(recipientAddress, value),
                        TransactionOutput(senderWallet.address, Abs(senderBalance - value)) >>
    IN Transaction(senderWallet, txinputs, txOutputs)

\* the transaction submitTransaction builds (lines 381-397)
SubmittedTransaction(chain, senderWallet, recipientAddress, value) ==
    LET transactions == allTransactions(chain)
        spendable == SelectSeq(transactions,
                               LAMBDA tx : findIndex(tx.outputs, senderWallet.address) > -1)
        txinputs == MapSeq(spendable,
                           LAMBDA tx : TransactionInput(tx, findIndex(tx.outputs, senderWallet.address)))
        senderBalance == computeBalance(chain, senderWallet.address)
        txOutputs == << TransactionOutput(recipientAddress, value),
                        TransactionOutput(senderWallet.address, Abs(senderBalance - value)) >>
    IN Transaction(senderWallet, txinputs, txOutputs)

\* Blockchain.submitTransaction, with addToTransactionPool
submitTransaction(senderWallet, recipientAddress, value, fault) ==
    /\ Step
    /\ fault \in {"none", "txpool"}
    /\ transactionPool' = Append(transactionPool,
                                 SubmittedTransaction(blocks, senderWallet, recipientAddress, value))
    /\ diskPool' = IF fault = "txpool" THEN diskPool ELSE Just(transactionPool')
    /\ last' = Called("submitTransaction", IF fault = "none" THEN "none" ELSE "EIO")
    /\ offered' = NoOffer
    /\ newBlock' = Undefined
    /\ UNCHANGED <<blocks, diskBlocks>>

\* createBlock clearing the pool also when the block is rejected
createBlockWith_ClearsRejected(built, fault) ==
    /\ newBlock' = Just(built)
    /\ IF ~built.validTransaction
       THEN /\ fault = "none"
            /\ last' = Called("createBlock", "Invalid transaction")
            /\ transactionPool' = <<>>
            /\ diskPool' = Just(<<>>)
            /\ UNCHANGED <<blocks, diskBlocks>>
       ELSE /\ blocks' = Append(blocks, built)
            /\ transactionPool' = <<>>
            /\ diskPool' = IF fault = "txpool" THEN diskPool ELSE Just(<<>>)
            /\ diskBlocks' = IF fault = "none" THEN Just(blocks') ELSE diskBlocks
            /\ last' = Called("createBlock", IF fault = "none" THEN "block" ELSE "EIO")

\* createBlock after the block was built (lines 405-419), with
\* clearTransactionPool and save
createBlockWith(built, fault) ==
    /\ newBlock' = Just(built)
    /\ IF ~built.validTransaction
       THEN /\ fault = "none"
            /\ last' = Called("createBlock", "Invalid transaction")
            /\ UNCHANGED <<blocks, transactionPool, diskBlocks, diskPool>>
       ELSE /\ blocks' = Append(blocks, built)
            /\ transactionPool' = <<>>
            /\ diskPool' = IF fault = "txpool" THEN diskPool ELSE Just(<<>>)
            /\ diskBlocks' = IF fault = "none" THEN Just(blocks') ELSE diskBlocks
            /\ last' = Called("createBlock", IF fault = "none" THEN "block" ELSE "EIO")

\* Blockchain.createBlock
createBlock(minerAddress, fault) ==
    /\ Step
    /\ createBlockWith(NewBlock("Block", transactionPool, Just(getLastBlock(blocks)), minerAddress),
                       fault)
    /\ offered' = NoOffer

\* the prefilter of the loop with < in place of <=
RECURSIVE consensusLoop_LaterTie(_, _, _, _)
consensusLoop_LaterTie(blockchains, i, maxLength, bestCandidateIndex) ==
    IF ~(i < Len(blockchains))
    THEN [maxLength |-> maxLength, bestCandidateIndex |-> bestCandidateIndex]
    ELSE LET candidate == blockchains[i + 1]
         IN IF Len(candidate) < maxLength
            THEN consensusLoop_LaterTie(blockchains, i + 1, maxLength, bestCandidateIndex)
            ELSE IF Verify(candidate)
            THEN consensusLoop_LaterTie(blockchains, i + 1, Len(candidate), i)
            ELSE consensusLoop_LaterTie(blockchains, i + 1, maxLength, bestCandidateIndex)

\* the loop without the call of verify
RECURSIVE consensusLoop_Unverified(_, _, _, _)
consensusLoop_Unverified(blockchains, i, maxLength, bestCandidateIndex) ==
    IF ~(i < Len(blockchains))
    THEN [maxLength |-> maxLength, bestCandidateIndex |-> bestCandidateIndex]
    ELSE IF Len(blockchains[i + 1]) <= maxLength
    THEN consensusLoop_Unverified(blockchains, i + 1, maxLength, bestCandidateIndex)
    ELSE consensusLoop_Unverified(blockchains, i + 1, Len(blockchains[i + 1]), i)

\* the loop of consensus from index i on (lines 353-366)
RECURSIVE consensusLoop(_, _, _, _)
consensusLoop(blockchains, i, maxLength, bestCandidateIndex) ==
    IF ~(i < Len(blockchains))
    THEN [maxLength |-> maxLength, bestCandidateIndex |-> bestCandidateIndex]
    ELSE LET candidate == blockchains[i + 1]
         IN IF Len(candidate) <= maxLength
            THEN consensusLoop(blockchains, i + 1, maxLength, bestCandidateIndex)
            ELSE IF Verify(candidate)
            THEN consensusLoop(blockchains, i + 1, Len(candidate), i)
            ELSE consensusLoop(blockchains, i + 1, maxLength, bestCandidateIndex)

\* the condition of line 369 with >= in place of >
adopts_Ties(found, chain) ==
    /\ found.bestCandidateIndex # -1
    /\ (found.maxLength >= Len(chain) \/ ~Verify(chain))

\* the condition under which consensus replaces the chain (line 369)
adopts(found, chain) ==
    /\ found.bestCandidateIndex # -1
    /\ (found.maxLength > Len(chain) \/ ~Verify(chain))

\* consensus after the loop (lines 368-376), with save; found is what the
\* loop left in maxLength and bestCandidateIndex
consensusWith(blockchains, found, fault) ==
    IF adopts(found, blocks)
    THEN /\ blocks' = blockchains[found.bestCandidateIndex + 1]
         /\ diskBlocks' = IF fault = "none" THEN Just(blocks') ELSE diskBlocks
         /\ last' = Called("consensus", IF fault = "none" THEN "true" ELSE "EIO")
    ELSE /\ fault = "none"
         /\ last' = Called("consensus", "false")
         /\ UNCHANGED <<blocks, diskBlocks>>

\* Blockchain.consensus
consensus(blockchains, fault) ==
    /\ Step
    /\ fault \in {"none", "chain"}
    /\ consensusWith(blockchains, consensusLoop(blockchains, 0, 0, -1), fault)
    /\ newBlock' = Undefined
    /\ UNCHANGED <<transactionPool, diskPool>>

\* the consensus handler called with the chains of the candidates cands
consensusOf(cands, fault) ==
    /\ consensus([k \in 1..Len(cands) |-> Candidates[cands[k]]], fault)
    /\ offered' = Offer(cands)

\* a call of the static Blockchain.verify on its own
VerifyCall ==
    /\ arg[1] = "verify"
    /\ last.op = "constructor"
    /\ last' = Called("verify", IF Verify(TestChain(arg[2], arg[3], arg[4])) THEN "true" ELSE "false")
    /\ UNCHANGED <<node, offered, newBlock, steps, arg, mining>>

\* a call of the static Transaction.verify on its own
TransactionVerifyCall ==
    /\ arg[1] = "Transaction.verify"
    /\ last.op = "constructor"
    /\ last' = Called("Transaction.verify",
                      IF TransactionVerify(TestTransaction(arg[2], arg[3], arg[4]))
                      THEN "true" ELSE "false")
    /\ UNCHANGED <<node, offered, newBlock, steps, arg, mining>>

\* JSON.parse(fs.readFileSync(file)): the value read, or the error thrown.
\* readFileSync throws an error whose code is ENOENT on an absent file, and
\* JSON.parse throws a SyntaxError, which has no code.
readJson(file) ==
    IF file = "absent" THEN [thrown |-> TRUE, code |-> Just("ENOENT"), value |-> <<>>]
    ELSE IF file = "corrupt" THEN [thrown |-> TRUE, code |-> Undefined, value |-> <<>>]
    ELSE [thrown |-> FALSE, code |-> Undefined, value |-> <<>>]

\* Blockchain.initTransactionPool: the pool it leaves
initTransactionPool(poolFile) ==
    IF readJson(poolFile).thrown THEN <<>> ELSE readJson(poolFile).value

\* the private Blockchain.verify on this.blocks, which is undefined or a chain:
\* whether it throws "Invalid blockchain!" (blocks.length of undefined throws
\* inside the try of the static verify, which then returns false)
verifyThrows(thisBlocks) == thisBlocks = Undefined \/ ~Verify(thisBlocks[1])

\* what load has assigned to this.blocks when the finally clause runs
loadedBlocks(chainFile) ==
    IF ~readJson(chainFile).thrown THEN Just(readJson(chainFile).value)
    ELSE IF readJson(chainFile).code # Just("ENOENT") THEN Undefined
    ELSE Just(<<GENESIS_BLOCK>>)

\* Blockchain.load: this.blocks and what load throws.  An exception of the
\* finally clause replaces the one the catch clause rethrows.
load(chainFile) ==
    [blocks |-> loadedBlocks(chainFile),
     thrown |-> IF verifyThrows(loadedBlocks(chainFile)) THEN "Invalid blockchain!"
                ELSE IF readJson(chainFile).thrown /\ readJson(chainFile).code # Just("ENOENT")
                THEN "SyntaxError"
                ELSE "none"]

\* new Blockchain(nodeId) on a storage whose files are of the kinds arg names
BootCall ==
    /\ arg[1] = "boot"
    /\ last.op = "constructor"
    /\ last' = Called("new Blockchain", load(FileKinds[arg[2]]).thrown)
    /\ IF load(FileKinds[arg[2]]).thrown = "none"
       THEN /\ blocks' = load(FileKinds[arg[2]]).blocks[1]
            /\ transactionPool' = initTransactionPool(FileKinds[arg[3]])
            /\ UNCHANGED <<diskBlocks, diskPool>>
       ELSE UNCHANGED node
    /\ UNCHANGED <<offered, newBlock, steps, arg, mining>>

\* the hash a call of isPoWValid on its own is made with
ArgHash == HexHash(HexFirst[arg[2]], HexFill[arg[3]], HexLast[arg[4]])

\* a call of Block.isPoWValid on its own
IsPoWValidCall ==
    /\ arg[1] = "isPoWValid"
    /\ last.op = "constructor"
    /\ last' = Called("isPoWValid", IF isPoWValidHex(ArgHash) THEN "true" ELSE "false")
    /\ UNCHANGED <<node, offered, newBlock, steps, arg, mining>>

SubmitTransaction ==
    \E q \in Requests :
        submitTransaction(q.senderWallet, q.recipientAddress, q.value, "none")
CreateBlock == \E m \in Miners : createBlock(m, "none")
Consensus == \E cands \in CandidateLists : consensusOf(cands, "none")

Next ==
    \/ SubmitTransaction \/ CreateBlock \/ Consensus
    \/ VerifyCall \/ TransactionVerifyCall \/ BootCall \/ IsPoWValidCall

Spec == Init /\ [][Next]_vars

\* the same operations when a file write may raise
SubmitTransactionFault ==
    \E q \in Requests :
        submitTransaction(q.senderWallet, q.recipientAddress, q.value, "txpool")
CreateBlockFault == \E m \in Miners, f \in {"txpool", "chain"} : createBlock(m, f)
ConsensusFault == \E cands \in CandidateLists : consensusOf(cands, "chain")

NextFault ==
    \/ SubmitTransaction \/ CreateBlock \/ Consensus
    \/ VerifyCall \/ TransactionVerifyCall
    \/ SubmitTransactionFault \/ CreateBlockFault \/ ConsensusFault

SpecFault == Init /\ [][NextFault]_vars

(***************************************************************************)
(* The handlers with the steps of createBlock followed one by one: the     *)
(* Block constructor reads the tip and the pool and searches the nonce     *)
(* (MineBegin), then createBlock appends the block, clears the pool and    *)
(* saves (MineEnd).  GetBlocks and GetBalance are the read handlers.       *)
(***************************************************************************)
\* createBlock, line 403: new Block(this.transactionPool, this.getLastBlock(), minerAddress)
MineBegin(minerAddress) ==
    /\ Serving
    /\ Idle
    /\ mining' = Just([built |-> NewBlock("Block", transactionPool,
                                          Just(getLastBlock(blocks)), minerAddress),
                       tip |-> getLastBlock(blocks),
                       pool |-> transactionPool])
    /\ steps' = steps + 1
    /\ last' = Called("createBlock", "running")
    /\ offered' = NoOffer
    /\ newBlock' = Undefined
    /\ UNCHANGED <<node, arg>>

\* createBlock, lines 405-419
MineEnd ==
    /\ mining # Undefined
    /\ createBlockWith(mining[1].built, "none")
    /\ mining' = Undefined
    /\ offered' = NoOffer
    /\ UNCHANGED <<steps, arg>>

\* GET /blocks
GetBlocks ==
    /\ Serving
    /\ Idle
    /\ last' = Called("getBlocks", "served")
    /\ offered' = NoOffer
    /\ newBlock' = Undefined
    /\ UNCHANGED <<node, steps, arg, mining>>

\* GET /balance/:address
GetBalance ==
    /\ Serving
    /\ Idle
    /\ \E address \in Addresses :
          last' = Called("computeBalance",
                         IF computeBalance(blocks, address) < 0 THEN "negative" ELSE "served")
    /\ offered' = NoOffer
    /\ newBlock' = Undefined
    /\ UNCHANGED <<node, steps, arg, mining>>

CreateBlockBegin == \E m \in Miners : MineBegin(m)

NextHandlers ==
    \/ SubmitTransaction \/ CreateBlockBegin \/ MineEnd \/ Consensus
    \/ GetBlocks \/ GetBalance

SpecHandlers == Init /\ [][NextHandlers]_vars

(***************************************************************************)
(* Properties                                                              *)
(***************************************************************************)
lastBlock == blocks[Len(blocks)]

\* sums of the amounts of the outputs of a transaction and of the outputs
\* its inputs resolve to
SumOutputs(tx) ==
    LET S[i \in 0..Len(tx.outputs)] ==
            IF i = 0 THEN 0 ELSE S[i - 1] + tx.outputs[i].amount
    IN S[Len(tx.outputs)]

SumResolvedInputs(tx) ==
    LET S[i \in 0..Len(tx.inputs)] ==
            IF i = 0 THEN 0
            ELSE S[i - 1] + tx.inputs[i].transaction.outputs[tx.inputs[i].outputIdx + 1].amount
    IN S[Len(tx.inputs)]

\* C1: when the local chain is valid and has length n, consensus returns
\* false and leaves the chain unchanged if no valid candidate is longer than
\* n (a tie is not adopted); otherwise it returns true and the length of the
\* chain becomes that of the longest valid candidate.
C1_ConsensusStrictness ==
    [][ (last'.op = "consensus" /\ Verify(blocks)) =>
            IF offered'.bestLength <= Len(blocks)
            THEN last'.ret = "false" /\ blocks' = blocks
            ELSE last'.ret = "true" /\ Len(blocks') = offered'.bestLength ]_vars

\* a valid local chain of length >= 2 was offered a valid candidate of the
\* same length and kept
C1_TieNotAdopted ==
    /\ last.op = "consensus" /\ last.ret = "false"
    /\ Len(blocks) >= 2 /\ Verify(blocks)
    /\ offered.anyValid /\ offered.bestLength = Len(blocks)

\* C2: in every reachable state the local chain passes verify.
C2_LocalChainPassesVerify == Verify(blocks)

\* C3: when the pool holds a transaction that fails Transaction.verify,
\* createBlock throws 'Invalid transaction', the block it built has no hash,
\* and the chain, the pool and the two files are as before the call.
C3_MiningRejection ==
    [][ (last'.op = "createBlock"
           /\ \E i \in 1..Len(transactionPool) : ~TransactionVerify(transactionPool[i])) =>
            /\ last'.ret = "Invalid transaction"
            /\ newBlock' # Undefined /\ newBlock'[1].hash = Undefined
            /\ node' = node ]_vars

\* createBlock was rejected because of a transaction with a bad signature
C3_RejectedForSignature ==
    /\ last.op = "createBlock" /\ last.ret = "Invalid transaction"
    /\ \E i \in 1..Len(transactionPool) :
          ~verifySignature(transactionPool[i].wallet[1].address,
                           TxStringify(transactionPool[i]), transactionPool[i].signature)

\* C4: when every pooled transaction passes Transaction.verify, createBlock
\* appends exactly one block: its number is the tip's plus one, its ancestor
\* is the tip, its transactions are the coinbase followed by the pool in
\* order; the pool is empty afterwards and the earlier blocks are unchanged.
C4_SuccessfulMining ==
    [][ (last'.op = "createBlock"
           /\ \A i \in 1..Len(transactionPool) : TransactionVerify(transactionPool[i])) =>
            /\ Len(blocks') = Len(blocks) + 1
            /\ SubSeq(blocks', 1, Len(blocks)) = blocks
            /\ blocks'[Len(blocks')].blockNumber = blocks[Len(blocks)].blockNumber + 1
            /\ blocks'[Len(blocks')].ancestor = Just(AncestorRef(blocks[Len(blocks)]))
            /\ blocks'[Len(blocks')].transactions =
                  <<GenesisTransaction(blocks'[Len(blocks')].minerAddress, MINING_REWARD)>>
                      \o transactionPool
            /\ transactionPool' = <<>> ]_vars

\* a block holding pooled transactions was appended
C4_MinedPool ==
    /\ last.op = "createBlock" /\ last.ret = "block"
    /\ Len(lastBlock.transactions) >= 2
    /\ Len(blocks) = last.len0 + 1

\* C5: consensus returns true and replaces the chain exactly when some
\* candidate passes verify and (the longest valid candidate is longer than
\* the local chain or the local chain fails verify); the chain adopted is
\* the first listed of the valid candidates of greatest length.
C5_ReconcileIff ==
    [][ last'.op = "consensus" =>
            /\ (last'.ret = "true") <=>
                  (offered'.anyValid
                     /\ (offered'.bestLength > Len(blocks) \/ ~Verify(blocks)))
            /\ last'.ret = "true" => blocks' = Candidates[offered'.firstBest]
            /\ last'.ret # "true" => blocks' = blocks ]_vars

\* a local chain was replaced by a candidate that is not longer
C5_InvalidLocalReplaced ==
    /\ last.op = "consensus" /\ last.ret = "true"
    /\ Len(blocks) <= last.len0

\* what C6 says verify accepts: a chain that is not empty, starts with the
\* genesis block, and whose every later block has its index as number, the
\* recomputed hash of its predecessor as ancestor hash, and a recomputed
\* hash that meets its target
ValidChain(chain) ==
    /\ Len(chain) > 0
    /\ deepEqual(chain[1], GENESIS_BLOCK)
    /\ \A i \in 1..(Len(chain) - 1) :
          /\ chain[i + 1].blockNumber = i
          /\ chain[i + 1].ancestor # Null
          /\ ~toJsonThrows(chain[i])
          /\ chain[i + 1].ancestor[1].hash = Just(sha256(chain[i]))
          /\ isPoWValid(chain[i + 1], sha256(chain[i + 1]))

\* C6: verify returns true exactly for the chains described by ValidChain
\* and false for every other one (it never raises), in particular for a
\* valid chain with one ancestor hash altered; the node is left as it was.
C6_VerifyExact ==
    last.op = "verify" =>
        /\ last.ret \in {"true", "false"}
        /\ (last.ret = "true") <=> ValidChain(TestChain(arg[2], arg[3], arg[4]))
        /\ (arg[4] = 2 /\ arg[3] >= 2) => last.ret = "false"
        /\ blocks = <<GENESIS_BLOCK>> /\ transactionPool = <<>>
        /\ diskBlocks = Undefined /\ diskPool = Undefined

\* verify rejected a valid chain whose last ancestor hash was altered
C6_AlteredAncestorRejected ==
    /\ last.op = "verify" /\ last.ret = "false"
    /\ arg[4] = 2 /\ arg[3] >= 2
    /\ Verify(TestBase(arg[2]))

\* C7: a transaction accepted by Transaction.verify spends no more than
\* its inputs resolve to, one whose outputs sum to the inputs plus one is
\* rejected, and so every non-coinbase transaction of a block appended by
\* createBlock spends no more than its inputs.
C7_Conservation ==
    /\ last.op = "Transaction.verify" =>
          LET tx == TestTransaction(arg[2], arg[3], arg[4])
          IN /\ last.ret = "true" => SumOutputs(tx) <= SumResolvedInputs(tx)
             /\ SumOutputs(tx) = SumResolvedInputs(tx) + 1 => last.ret = "false"
    /\ (last.op = "createBlock" /\ last.ret = "block") =>
          \A i \in 2..Len(lastBlock.transactions) :
              SumOutputs(lastBlock.transactions[i])
                  <= SumResolvedInputs(lastBlock.transactions[i])

\* a correctly signed transaction spending one owner's outputs plus one was
\* rejected
C7_OneTooManyRejected ==
    /\ last.op = "Transaction.verify" /\ last.ret = "false"
    /\ arg[2] = 1 /\ arg[3] = 3 /\ arg[4] = 1

\* C8: after createBlock(A) with an empty pool on a fresh node,
\* computeBalance(A) is MINING_REWARD and computeBalance(X) is 0 for every
\* other address X.
C8_BalanceRoundTrip ==
    (steps = 1 /\ last.op = "createBlock" /\ last.ret = "block") =>
        \A X \in Addresses :
            computeBalance(blocks, X) =
                IF X = lastBlock.minerAddress THEN MINING_REWARD ELSE 0

\* C9: the local chain is never empty and its first block is the genesis
\* block.
C9_GenesisInvariant ==
    /\ Len(blocks) > 0
    /\ deepEqual(blocks[1], GENESIS_BLOCK)

\* a candidate chain was adopted by a node with a pending transaction
C9_AfterAdoption ==
    /\ last.op = "consensus" /\ last.ret = "true"
    /\ transactionPool # <<>>
    /\ Len(blocks) >= 2

\* C10: whatever a write does, an operation leaves the chain, the pool and
\* the two files either all as they were or all as the completed operation
\* leaves them.
C10_NoPartialCommit ==
    [][ last'.op \in {"submitTransaction", "createBlock", "consensus"} =>
            \/ node' = node
            \/ /\ last'.op = "submitTransaction"
               /\ transactionPool' # transactionPool
               /\ diskPool' = Just(transactionPool')
               /\ blocks' = blocks /\ diskBlocks' = diskBlocks
            \/ /\ last'.op = "createBlock"
               /\ blocks' # blocks /\ diskBlocks' = Just(blocks')
               /\ transactionPool' = <<>> /\ diskPool' = Just(<<>>)
            \/ /\ last'.op = "consensus"
               /\ blocks' # blocks /\ diskBlocks' = Just(blocks')
               /\ transactionPool' = transactionPool /\ diskPool' = diskPool ]_vars

\* C11: nothing takes effect between the moment createBlock reads the tip
\* and the pool and the moment it appends and clears: when createBlock
\* appends a block, the tip and the pool are still the ones the block was
\* built from, the block's ancestor is the tip at the append, and every
\* transaction the append removes from the pool is in the block.
C11_SerializedMining ==
    [][ (last'.op = "createBlock" /\ last'.ret = "block") =>
            /\ mining # Undefined =>
                  /\ mining[1].tip = getLastBlock(blocks)
                  /\ mining[1].pool = transactionPool
            /\ SubSeq(blocks', 1, Len(blocks)) = blocks
            /\ blocks'[Len(blocks')].ancestor = Just(AncestorRef(getLastBlock(blocks)))
            /\ \A i \in 1..Len(transactionPool) :
                  \E j \in 1..Len(blocks'[Len(blocks')].transactions) :
                      blocks'[Len(blocks')].transactions[j] = transactionPool[i]
            /\ transactionPool' = <<>> ]_vars

\* a createBlock whose steps were followed appended a block that holds a
\* pooled transaction, on a chain that an earlier consensus had replaced
C11_MinedAfterSearch ==
    /\ last.op = "createBlock" /\ last.ret = "block"
    /\ mining = Undefined
    /\ Len(lastBlock.transactions) >= 2
    /\ lastBlock.blockNumber >= 2
    /\ diskBlocks = Just(blocks) /\ diskPool = Just(<<>>)

\* C12: while the nonce search of a createBlock is in progress, the chain
\* and the balances can still be read.
C12_ReadsWhileMining ==
    (mining # Undefined /\ arg = NoCall) => ENABLED (GetBlocks \/ GetBalance)

\* C13: when the constructor runs on a storage whose pool file is absent or
\* unreadable and whose chain file is absent or unreadable, it does not throw,
\* and it leaves the chain [GENESIS_BLOCK] and an empty pool.
C13_BootNeverFails ==
    (last.op = "new Blockchain" /\ FileKinds[arg[2]] \in {"absent", "corrupt"}
                                /\ FileKinds[arg[3]] \in {"absent", "corrupt"}) =>
        /\ last.ret = "none"
        /\ blocks = <<GENESIS_BLOCK>>
        /\ transactionPool = <<>>

\* C14: isPoWValid accepts a hash exactly when its numeric value is at most
\* 2^(256 - DIFFICULTY); it accepts the hash equal to that target and rejects
\* the hash equal to the target plus one.
C14_BoundaryExact ==
    last.op = "isPoWValid" =>
        ((last.ret = "true") <=> Leq(BigNumberOfHex(ArgHash), BlockTarget))

\* C15: a call of consensus leaves the pool and its file as they are; when
\* it returns false the chain and its file are as they were; when it returns
\* true the chain is one of the candidates, it passes verify, and it is the
\* chain that was saved.
C15_ReconcileFrame ==
    [][ last'.op = "consensus" =>
          /\ transactionPool' = transactionPool /\ diskPool' = diskPool
          /\ last'.ret \in {"true", "false"}
          /\ last'.ret = "false" => (blocks' = blocks /\ diskBlocks' = diskBlocks)
          /\ last'.ret = "true" =>
                /\ offered'.firstBest \in CandidateIds
                /\ blocks' = Candidates[offered'.firstBest]
                /\ Verify(blocks')
                /\ diskBlocks' = Just(blocks') ]_vars

\* consensus was handed candidates none of which passes verify while
\* transactions were pending, and returned false
C15_InvalidCandidatesDiscarded ==
    /\ last.op = "consensus" /\ last.ret = "false"
    /\ offered.count > 0 /\ ~offered.anyValid
    /\ transactionPool # <<>>
    /\ diskPool = Just(transactionPool)

\* a coinbase: a transaction without a sender
isCoinbase(tx) == tx.wallet = Null

\* C16: every block of the chain starts with the coinbase that pays
\* MINING_REWARD to the miner of the block and holds no other coinbase.
C16_CoinbaseFirst ==
    \A i \in 1..Len(blocks) :
        /\ Len(blocks[i].transactions) >= 1
        /\ blocks[i].transactions[1] = GenesisTransaction(blocks[i].minerAddress, MINING_REWARD)
        /\ \A j \in 2..Len(blocks[i].transactions) : ~isCoinbase(blocks[i].transactions[j])

\* C17: submitTransaction collects as inputs every output of the chain that
\* pays the sender, whether or not a transaction of the chain has spent it;
\* submitted right after another transaction of the same sender it has the
\* same inputs as that one; and createBlock appends a block holding every
\* pending transaction when each of them passes Transaction.verify, shared
\* inputs or not.
C17_NoSpentTracking ==
    [][ /\ last'.op = "submitTransaction" =>
              /\ \A i \in 1..Len(allTransactions(blocks)) :
                    findIndex(allTransactions(blocks)[i].outputs,
                              transactionPool'[Len(transactionPool')].wallet[1].address) > -1
                    => \E k \in 1..Len(transactionPool'[Len(transactionPool')].inputs) :
                          transactionPool'[Len(transactionPool')].inputs[k] =
                              TransactionInput(allTransactions(blocks)[i],
                                  findIndex(allTransactions(blocks)[i].outputs,
                                            transactionPool'[Len(transactionPool')].wallet[1].address))
              /\ (last.op = "submitTransaction"
                     /\ transactionPool[Len(transactionPool)].wallet[1].address =
                            transactionPool'[Len(transactionPool')].wallet[1].address)
                    => transactionPool'[Len(transactionPool')].inputs =
                          transactionPool[Len(transactionPool)].inputs
        /\ (last'.op = "createBlock"
               /\ \A i \in 1..Len(transactionPool) : TransactionVerify(transactionPool[i]))
              => /\ last'.ret = "block"
                 /\ blocks'[Len(blocks')].transactions =
                       <<GenesisTransaction(blocks'[Len(blocks')].minerAddress, MINING_REWARD)>>
                           \o transactionPool ]_vars

\* a block was mined that holds two transactions spending the same outputs,
\* on a chain in which those outputs exist
C17_DoubleSpendMined ==
    /\ last.op = "createBlock" /\ last.ret = "block"
    /\ Len(lastBlock.transactions) = 3
    /\ lastBlock.transactions[2].inputs # <<>>
    /\ lastBlock.transactions[2].inputs = lastBlock.transactions[3].inputs

\* C18: when createBlock, called by a third address, appends a block for a
\* pool that holds one transfer of v from S to another address R, built by
\* submitTransaction on the current chain with computeBalance(S) >= v, the
\* balance of S goes down by v and the balance of R goes up by v.
C18_TransferEffect ==
    [][ (/\ last'.op = "createBlock" /\ last'.ret = "block"
         /\ Len(transactionPool) = 1
         /\ transactionPool[1] =
               SubmittedTransaction(blocks, transactionPool[1].wallet[1],
                                    transactionPool[1].outputs[1].recipientAddress,
                                    transactionPool[1].outputs[1].amount)
         /\ transactionPool[1].outputs[1].recipientAddress # transactionPool[1].wallet[1].address
         /\ blocks'[Len(blocks')].minerAddress \notin
               {transactionPool[1].wallet[1].address, transactionPool[1].outputs[1].recipientAddress}
         /\ computeBalance(blocks, transactionPool[1].wallet[1].address)
               >= transactionPool[1].outputs[1].amount)
        => /\ computeBalance(blocks', transactionPool[1].wallet[1].address) =
                 computeBalance(blocks, transactionPool[1].wallet[1].address)
                     - transactionPool[1].outputs[1].amount
           /\ computeBalance(blocks', transactionPool[1].outputs[1].recipientAddress) =
                 computeBalance(blocks, transactionPool[1].outputs[1].recipientAddress)
                     + transactionPool[1].outputs[1].amount ]_vars

\* C19: submitTransaction appends its transaction to the pool whatever the
\* transaction is; and from a state whose pool holds a transaction that fails
\* Transaction.verify, every operation keeps the pool it found as a prefix of
\* the pool, createBlock returns "Invalid transaction", and only consensus
\* changes the chain.
C19_PoolPoisoning ==
    [][ /\ last'.op = "submitTransaction" =>
              /\ Len(transactionPool') = Len(transactionPool) + 1
              /\ SubSeq(transactionPool', 1, Len(transactionPool)) = transactionPool
        /\ (\E i \in 1..Len(transactionPool) : ~TransactionVerify(transactionPool[i])) =>
              /\ Len(transactionPool') >= Len(transactionPool)
              /\ SubSeq(transactionPool', 1, Len(transactionPool)) = transactionPool
              /\ last'.op = "createBlock" => last'.ret = "Invalid transaction"
              /\ last'.op # "consensus" => blocks' = blocks ]_vars

\* createBlock was rejected, and left in the pool and in its file a correctly
\* signed transaction that spends more than its inputs
C19_OverspendKept ==
    /\ last.op = "createBlock" /\ last.ret = "Invalid transaction"
    /\ Len(blocks) = last.len0
    /\ diskPool = Just(transactionPool)
    /\ \E i \in 1..Len(transactionPool) :
          /\ transactionPool[i].wallet = Just(WalletA)
          /\ ~TransactionVerify(transactionPool[i])

\* C20: the length of the chain never decreases.
C20_LengthNeverDecreases ==
    [][Len(blocks') >= Len(blocks)]_vars

====
